---- MODULE Spec2Model ----
(***************************************************************************)
(* Model of src/main.py: the Dialogflow CX fulfillment webhook             *)
(* (end_conversation_webhook.py).  One Flask route, webhook(), dispatches  *)
(* on the intent display name, saves feedback to Firestore or sends a      *)
(* share link through Twilio, and always answers with a fulfillment        *)
(* response.  format_phone_number() is the pure phone normaliser.          *)
(*                                                                         *)
(* Python strings that the code inspects character by character (phone     *)
(* numbers, Twilio addresses) are sequences of one-character strings;      *)
(* strings that are only compared or concatenated are TLA+ strings.        *)
(***************************************************************************)
EXTENDS Integers, Sequences, FiniteSets, TLC

VARIABLES
    pc,             \* "boot" while the module is being imported, then "serving"
    db,             \* the global Firestore handle: "None" or "client"
    feedback,       \* the documents of the 'feedback' collection, in write order
    served,         \* number of requests handled so far (also the clock)
    req,            \* the request of the last webhook() call
    store_outcome,  \* what db.collection('feedback').add did in that call
    send_outcome,   \* what twilio_client.messages.create did in that call
    result,         \* what that call returned and which collaborators it called
    prev,           \* the call before it (request, outcomes, handle, response)
    number,         \* argument of the last format_phone_number call
    formatted,      \* its return value
    fpc             \* "call" before format_phone_number ran, "return" after

vars == <<pc, db, feedback, served, req, store_outcome, send_outcome, result,
          prev, number, formatted, fpc>>

(***************************************************************************)
(* Bounds of the model.                                                    *)
(***************************************************************************)
MaxRequests == 2    \* requests handled in one behaviour
MaxHead == 2        \* free characters in front of a generated phone input
MaxFill == 9        \* length of the digit run in a generated phone input
MaxTail == 1        \* free characters behind the digit run

(***************************************************************************)
(* Character strings.                                                      *)
(***************************************************************************)
Digits == {"0", "1", "2", "3", "4", "5", "6", "7", "8", "9"}

\* str.isdigit on one character (ASCII digits are the only digits of the
\* model's alphabet)
isdigit(c) == c \in Digits

\* ''.join(filter(str.isdigit, s))
RECURSIVE filter_isdigit(_)
filter_isdigit(s) ==
    IF s = <<>> THEN <<>>
    ELSE IF isdigit(Head(s)) THEN <<Head(s)>> \o filter_isdigit(Tail(s))
    ELSE filter_isdigit(Tail(s))

\* s.startswith(p)
startswith(s, p) == Len(s) >= Len(p) /\ SubSeq(s, 1, Len(p)) = p

\* the length format_phone_number requires of a UK local number
UKLen == 11

\* format_phone_number with the slice [1:] forgotten: the leading 0 is kept
format_phone_number_keepzero(number_) ==
    LET cleaned_number == filter_isdigit(number_) IN
    IF startswith(cleaned_number, <<"0", "7">>) /\ Len(cleaned_number) = UKLen
    THEN <<"+", "4", "4">> \o cleaned_number
    ELSE cleaned_number

\* format_phone_number(number)
format_phone_number(number_) ==
    LET cleaned_number == filter_isdigit(number_) IN
    IF startswith(cleaned_number, <<"0", "7">>) /\ Len(cleaned_number) = UKLen
    THEN <<"+", "4", "4">> \o SubSeq(cleaned_number, 2, Len(cleaned_number))
    ELSE cleaned_number

(***************************************************************************)
(* JSON values of the request that the handler reads.  A value is a record *)
(* [kind, s]: kind "absent" is a missing key (dict.get gives None), "str"  *)
(* a JSON string, "int" a JSON number.                                     *)
(***************************************************************************)
AbsentText == [kind |-> "absent", s |-> ""]
Text(t) == [kind |-> "str", s |-> t]
IntText == [kind |-> "int", s |-> "5"]

AbsentPhone == [kind |-> "absent", s |-> <<>>]
Phone(t) == [kind |-> "str", s |-> t]
IntPhone == [kind |-> "int", s |-> <<"7">>]

\* Python truthiness of a value: None and '' are falsy, the numbers 5 and 7
\* are truthy
TruthyText(v) == v.kind = "int" \/ (v.kind = "str" /\ v.s # "")
TruthyPhone(v) == v.kind = "int" \/ (v.kind = "str" /\ v.s # <<>>)

UKLocal == <<"0", "7", "1", "2", "3", "4", "5", "6", "7", "8", "9">>
Spaced == <<"+", "4", "4", " ", "7", "1", "2", "3", "-", "4", "5", "6">>

FeedbackTexts == {AbsentText, Text(""), Text("great"), IntText}
PhoneNumbers == {AbsentPhone, Phone(<<>>), Phone(UKLocal), Phone(Spaced), IntPhone}

Bag(f, p) == [kind |-> "object", feedback_text |-> f, recipient_phone_number |-> p]

\* sessionInfo.parameters: JSON null, or a dict holding a feedback text, a
\* phone number, both or neither
ParameterBags ==
    {Bag(f, AbsentPhone) : f \in FeedbackTexts}
    \cup {Bag(AbsentText, p) : p \in PhoneNumbers}
    \cup {Bag(Text("great"), Phone(UKLocal))}
    \cup {[kind |-> "null", feedback_text |-> AbsentText,
           recipient_phone_number |-> AbsentPhone]}

\* sessionInfo: a dict with parameters, a dict without (sessionInfo missing
\* altogether reads the same: both lookups fall back to {}), or a JSON string
SessionInfos ==
    {[kind |-> "object", parameters |-> b] : b \in ParameterBags}
    \cup {[kind |-> k, parameters |-> Bag(AbsentText, AbsentPhone)] :
            k \in {"absent", "str"}}

\* intentInfo: a dict with or without displayName (intentInfo missing
\* altogether reads the same), or a JSON string
DisplayNames == {AbsentText, Text("FeedbackIntent"), Text("RecommendIntent"),
                 Text("OtherIntent")}
IntentInfos ==
    {[kind |-> "object", displayName |-> n] : n \in DisplayNames}
    \cup {[kind |-> "str", displayName |-> AbsentText]}

\* fulfillmentInfo.tag
Tags == {AbsentText, Text("feedback-recommend"), Text("recommend-share")}

\* The parsed body, request.get_json(silent=True, force=True): None for a
\* body that is not JSON, a list for a JSON array, a dict for a JSON object
ObjectRequests ==
    {[body |-> "object", intentInfo |-> i, fulfillmentInfo |-> [tag |-> t],
      sessionInfo |-> s] : i \in IntentInfos, t \in Tags, s \in SessionInfos}
NoBody(k) ==
    [body |-> k, intentInfo |-> [kind |-> "object", displayName |-> AbsentText],
     fulfillmentInfo |-> [tag |-> AbsentText],
     sessionInfo |-> [kind |-> "absent",
                      parameters |-> Bag(AbsentText, AbsentPhone)]]
Requests == ObjectRequests \cup {NoBody("None"), NoBody("list")}

\* what db.collection('feedback').add and twilio_client.messages.create do
\* when called: return, or raise
StoreOutcomes == {"ok", "error"}
SendOutcomes == {"ok", "error"}

(***************************************************************************)
(* The handler.                                                            *)
(***************************************************************************)
\* the shape every branch of webhook() builds around its message
Response(message) ==
    [fulfillmentResponse |->
        [messages |-> << [text |-> [text |-> <<message>>]] >>]]

FallbackText == "I'm sorry, I didn't understand that. Could you please rephrase?"
ThanksText == "Thank you for your feedback! It has been recorded."
SaveFailedText ==
    "Sorry, I couldn't save your feedback at this time. Please try again later."
NotSavedText ==
    "Sorry, I couldn't save your feedback because the database is not connected or no text was provided."
NoPhoneText == "Sorry, I did not receive a valid phone number. Please try again."
SentText == "Message sent successfully."
ErrorText(e) == "An unexpected error occurred: " \o e \o ". Please try again later."

share_link == "https://www.google.com/search?q=https://example.com/share"
\* the f-string of the message body, as its literal part and its field
message_body ==
    <<"Hello! I wanted to recommend this service to you. Check it out here: ",
      share_link>>

WhatsappPrefix == <<"w", "h", "a", "t", "s", "a", "p", "p", ":">>
from_number ==
    WhatsappPrefix \o <<"+", "1", "4", "1", "5", "5", "2", "3", "8", "8", "8", "6">>

\* str(e) of the exceptions the model's inputs can raise
NoneTypeError == "'NoneType' object has no attribute 'get'"
ListError == "'list' object has no attribute 'get'"
StrError == "'str' object has no attribute 'get'"
NotIterableError == "'int' object is not iterable"
TwilioError == "Unable to create record"

\* send_whatsapp_message(to_number, message_body): the call it makes and the
\* (success, message) pair it returns; outcome is what messages.create did
send_whatsapp_message(to_number, body, outcome) ==
    [call |-> [to |-> to_number, from_ |-> from_number, body |-> body],
     success |-> outcome = "ok",
     message |-> IF outcome = "ok" THEN SentText
                 ELSE "Failed to send message: " \o TwilioError]

\* what the body of the try block did: raised and exc when an exception left
\* it, else the message of the response it built; the records it handed to
\* db.collection('feedback').add, those that were written, and the calls of
\* twilio_client.messages.create
Did(raised, exc, message, store_calls, written, gateway_calls) ==
    [raised |-> raised, exc |-> exc, message |-> message,
     store_calls |-> store_calls, written |-> written,
     gateway_calls |-> gateway_calls]
Raise(exc) == Did(TRUE, exc, "", <<>>, <<>>, <<>>)
Say(message) == Did(FALSE, "", message, <<>>, <<>>, <<>>)

\* the exception of lines 99-100, "" when both lookups succeed
extract_error(r) ==
    CASE r.body = "None" -> NoneTypeError
      [] r.body = "list" -> ListError
      [] r.intentInfo.kind = "str" -> StrError
      [] r.sessionInfo.kind = "str" -> StrError
      [] OTHER -> ""

\* req.get("intentInfo", {}).get("displayName")
intent_display_name(r) == r.intentInfo.displayName

\* req.get("sessionInfo", {}).get("parameters", {}): a missing key gives {}
parameters(r) ==
    IF r.sessionInfo.kind = "object" THEN r.sessionInfo.parameters
    ELSE [kind |-> "object", feedback_text |-> AbsentText,
          recipient_phone_number |-> AbsentPhone]

\* the chain with the fulfillment tag as a second key of each branch
select_branch_tag(r) ==
    IF intent_display_name(r) = Text("FeedbackIntent")
       \/ r.fulfillmentInfo.tag = Text("feedback-recommend") THEN "feedback"
    ELSE IF intent_display_name(r) = Text("RecommendIntent")
            \/ r.fulfillmentInfo.tag = Text("recommend-share") THEN "recommend"
    ELSE "fallback"

\* the if / elif chain of webhook()
select_branch(r) ==
    IF intent_display_name(r) = Text("FeedbackIntent") THEN "feedback"
    ELSE IF intent_display_name(r) = Text("RecommendIntent") THEN "recommend"
    ELSE "fallback"

\* the feedback branch with the test of feedback_text forgotten
feedback_branch_unguarded(r, now, outcome) ==
    LET p == parameters(r) IN
    IF p.kind = "null" THEN Raise(NoneTypeError)
    ELSE
        LET feedback_text == p.feedback_text
            record == [text |-> feedback_text, timestamp |-> now]
        IN  IF db # "None"
            THEN IF outcome = "ok"
                 THEN Did(FALSE, "", ThanksText, <<record>>, <<record>>, <<>>)
                 ELSE Did(FALSE, "", SaveFailedText, <<record>>, <<>>, <<>>)
            ELSE Say(NotSavedText)

\* the feedback branch answering from what earlier requests stored
feedback_branch_dedup(r, now, outcome) ==
    LET p == parameters(r) IN
    IF p.kind = "null" THEN Raise(NoneTypeError)
    ELSE
        LET feedback_text == p.feedback_text
            record == [text |-> feedback_text, timestamp |-> now]
        IN  IF TruthyText(feedback_text) /\ db # "None"
            THEN IF \E i \in 1..Len(feedback) : feedback[i].text = feedback_text
                 THEN Say("Thank you, we already have this feedback.")
                 ELSE IF outcome = "ok"
                 THEN Did(FALSE, "", ThanksText, <<record>>, <<record>>, <<>>)
                 ELSE Did(FALSE, "", SaveFailedText, <<record>>, <<>>, <<>>)
            ELSE Say(NotSavedText)

\* the FeedbackIntent branch; now is datetime.datetime.now(), outcome what
\* db.collection('feedback').add does when it is called
feedback_branch(r, now, outcome) ==
    LET p == parameters(r) IN
    IF p.kind = "null" THEN Raise(NoneTypeError)
    ELSE
        LET feedback_text == p.feedback_text
            record == [text |-> feedback_text, timestamp |-> now]
        IN  IF TruthyText(feedback_text) /\ db # "None"
            THEN IF outcome = "ok"
                 THEN Did(FALSE, "", ThanksText, <<record>>, <<record>>, <<>>)
                 ELSE Did(FALSE, "", SaveFailedText, <<record>>, <<>>, <<>>)
            ELSE Say(NotSavedText)

\* the recommend branch also writing a document for the recommendation
recommend_branch_logged(r, now, outcome) ==
    LET p == parameters(r) IN
    IF p.kind = "null" THEN Raise(NoneTypeError)
    ELSE
        LET recipient_number == p.recipient_phone_number IN
        IF TruthyPhone(recipient_number)
        THEN IF recipient_number.kind # "str" THEN Raise(NotIterableError)
             ELSE
                LET formatted_number == format_phone_number(recipient_number.s)
                    sent == send_whatsapp_message(formatted_number, message_body,
                                                  outcome)
                    record == [text |-> Text("recommended"), timestamp |-> now]
                IN  Did(FALSE, "", sent.message, <<record>>, <<record>>,
                        <<sent.call>>)
        ELSE Say(NoPhoneText)

\* the RecommendIntent branch; outcome is what messages.create does when it
\* is called
recommend_branch(r, now, outcome) ==
    LET p == parameters(r) IN
    IF p.kind = "null" THEN Raise(NoneTypeError)
    ELSE
        LET recipient_number == p.recipient_phone_number IN
        IF TruthyPhone(recipient_number)
        THEN IF recipient_number.kind # "str" THEN Raise(NotIterableError)
             ELSE
                LET formatted_number == format_phone_number(recipient_number.s)
                    sent == send_whatsapp_message(formatted_number, message_body,
                                                  outcome)
                IN  Did(FALSE, "", sent.message, <<>>, <<>>, <<sent.call>>)
        ELSE Say(NoPhoneText)

\* the try block with a plain else in place of the elif
try_block_else(r, now, store, send) ==
    IF extract_error(r) # "" THEN Raise(extract_error(r))
    ELSE IF select_branch(r) = "feedback" THEN feedback_branch(r, now, store)
    ELSE recommend_branch(r, now, send)

\* the body of the try block of webhook()
try_block(r, now, store, send) ==
    IF extract_error(r) # "" THEN Raise(extract_error(r))
    ELSE CASE select_branch(r) = "feedback" -> feedback_branch(r, now, store)
           [] select_branch(r) = "recommend" -> recommend_branch(r, now, send)
           [] OTHER -> Say(FallbackText)

\* webhook() without the except clause: the exception leaves the handler
webhook_uncaught(r, now, store, send) ==
    LET did == try_block(r, now, store, send) IN
    [status |-> IF did.raised THEN 500 ELSE 200,
     response |-> IF did.raised
                  THEN [fulfillmentResponse |-> [messages |-> <<>>]]
                  ELSE Response(did.message),
     store_calls |-> did.store_calls,
     written |-> did.written,
     gateway_calls |-> did.gateway_calls]

\* webhook() with an except clause that keeps the default response
webhook_fallback_on_error(r, now, store, send) ==
    LET did == try_block(r, now, store, send) IN
    [status |-> 200,
     response |-> IF did.raised THEN Response(FallbackText)
                  ELSE Response(did.message),
     store_calls |-> did.store_calls,
     written |-> did.written,
     gateway_calls |-> did.gateway_calls]

\* webhook(): the try block, the except clause that turns any exception into
\* a response, and return jsonify(fulfillment_response)
webhook(r, now, store, send) ==
    LET did == try_block(r, now, store, send) IN
    [status |-> 200,
     response |-> IF did.raised THEN Response(ErrorText(did.exc))
                  ELSE Response(did.message),
     store_calls |-> did.store_calls,
     written |-> did.written,
     gateway_calls |-> did.gateway_calls]

\* how the import of the module can find the Firestore credentials
Credentials == {"default", "env_file", "env_missing", "env_error"}

\* the value the module leaves in db for each of them
connect(cred) ==
    CASE cred = "default" -> "client"
      [] cred = "env_file" -> "client"
      [] OTHER -> "None"

(***************************************************************************)
(* Inputs of the phone normaliser: up to MaxHead free characters, a run of *)
(* up to MaxFill copies of one digit, up to MaxTail free characters.       *)
(***************************************************************************)
Alphabet == {"0", "7", "4", "+", "-"}
FillDigits == {"1", "7"}

SeqsUpTo(S, n) == UNION {[1..k -> S] : k \in 0..n}
Fill(d, n) == [i \in 1..n |-> d]

RawNumbers ==
    {h \o Fill(d, n) \o t :
        h \in SeqsUpTo(Alphabet, MaxHead), d \in FillDigits, n \in 0..MaxFill,
        t \in SeqsUpTo(Alphabet, MaxTail)}

(***************************************************************************)
(* The state machine.                                                      *)
(***************************************************************************)
NoResult ==
    [status |-> 0, response |-> [fulfillmentResponse |-> [messages |-> <<>>]],
     store_calls |-> <<>>, gateway_calls |-> <<>>]

Init ==
    /\ pc = "boot"
    /\ db = "None"
    /\ feedback = <<>>
    /\ served = 0
    /\ req = NoBody("None")
    /\ store_outcome = "uncalled"
    /\ send_outcome = "uncalled"
    /\ result = NoResult
    /\ prev = <<>>
    /\ number = <<>>
    /\ formatted = <<>>
    /\ fpc = "call"

\* import of the module: the Firestore connection setup sets db
Startup ==
    /\ pc = "boot"
    /\ \E cred \in Credentials : db' = connect(cred)
    /\ pc' = "serving"
    /\ UNCHANGED <<feedback, served, req, store_outcome, send_outcome, result,
                   prev, number, formatted, fpc>>

\* one POST /webhook with a request of R; logged says whether prev keeps the
\* call that came before
Serve(R, logged) ==
    /\ pc = "serving"
    /\ served < MaxRequests
    /\ \E r \in R, store \in StoreOutcomes, send \in SendOutcomes :
        LET out == webhook(r, served, store, send) IN
        /\ req' = r
        /\ store_outcome' = IF out.store_calls # <<>> THEN store ELSE "uncalled"
        /\ send_outcome' = IF out.gateway_calls # <<>> THEN send ELSE "uncalled"
        /\ result' = [status |-> out.status, response |-> out.response,
                      store_calls |-> out.store_calls,
                      gateway_calls |-> out.gateway_calls]
        /\ feedback' = feedback \o out.written
    /\ served' = served + 1
    /\ prev' = IF logged /\ served > 0
               THEN <<[req |-> req, store_outcome |-> store_outcome,
                       send_outcome |-> send_outcome, db |-> db,
                       response |-> result.response]>>
               ELSE <<>>
    /\ UNCHANGED <<pc, db, number, formatted, fpc>>

Webhook == Serve(Requests, FALSE)

Next == Startup \/ Webhook

Spec == Init /\ [][Next]_vars

\* requests with a well-formed envelope and no tag, and the body that is not
\* JSON
CoreRequests ==
    {r \in ObjectRequests :
        /\ r.fulfillmentInfo.tag = AbsentText
        /\ r.intentInfo.kind = "object"
        /\ r.sessionInfo.kind = "object"
        /\ r.sessionInfo.parameters.kind = "object"
        /\ r.sessionInfo.parameters.feedback_text \in {AbsentText, Text("great")}
        /\ r.sessionInfo.parameters.recipient_phone_number
              \in {AbsentPhone, Phone(UKLocal)}}
    \cup {NoBody("None")}

WebhookLogged == Serve(CoreRequests, TRUE)

NextLogged == Startup \/ WebhookLogged

SpecLogged == Init /\ [][NextLogged]_vars

\* the normaliser on its own
InitPhone ==
    /\ pc = "boot"
    /\ db = "None"
    /\ feedback = <<>>
    /\ served = 0
    /\ req = NoBody("None")
    /\ store_outcome = "uncalled"
    /\ send_outcome = "uncalled"
    /\ result = NoResult
    /\ prev = <<>>
    /\ number \in RawNumbers
    /\ formatted = <<>>
    /\ fpc = "call"

FormatPhone ==
    /\ fpc = "call"
    /\ formatted' = format_phone_number(number)
    /\ fpc' = "return"
    /\ UNCHANGED <<pc, db, feedback, served, req, store_outcome, send_outcome,
                   result, prev, number>>

NextPhone == FormatPhone

SpecPhone == InitPhone /\ [][NextPhone]_vars

(***************************************************************************)
(* What a state shows of the last request.                                 *)
(***************************************************************************)
Handled == served > 0
Messages == result.response.fulfillmentResponse.messages
OneMessage == Len(Messages) = 1 /\ Len(Messages[1].text.text) = 1
ResponseText == Messages[1].text.text[1]
CollaboratorCalls == Len(result.store_calls) + Len(result.gateway_calls)

\* the body is a JSON object whose intentInfo and sessionInfo, when present,
\* are objects
Envelope(r) ==
    r.body = "object" /\ r.intentInfo.kind = "object" /\ r.sessionInfo.kind # "str"
IntentName(r) == r.intentInfo.displayName
Tag(r) == r.fulfillmentInfo.tag
FeedbackTextOf(r) == r.sessionInfo.parameters.feedback_text
PhoneOf(r) == r.sessionInfo.parameters.recipient_phone_number
HasBag(r) == r.sessionInfo.parameters.kind = "object"

FailedText == "Failed to send message: Unable to create record"
FeedbackReplies == {ThanksText, SaveFailedText, NotSavedText}
RecommendReplies == {SentText, FailedText, NoPhoneText}

\* the digits of a raw string, in order
IsDigitChar(c) == c \in Digits
DigitsOf(raw) == SelectSeq(raw, IsDigitChar)
UKForm(raw) ==
    /\ Len(DigitsOf(raw)) = UKLen
    /\ DigitsOf(raw)[1] = "0"
    /\ DigitsOf(raw)[2] = "7"

(***************************************************************************)
(* C1.  Whatever the request and whatever the collaborators do, webhook()  *)
(* returns normally (HTTP 200) a response with exactly one message whose   *)
(* text list holds exactly one string; no failure leaves the handler.      *)
(***************************************************************************)
C1_AlwaysOneTextMessage ==
    Handled =>
        /\ result.status = 200
        /\ OneMessage
        /\ ResponseText \in STRING

\* a request whose handling raised inside the try block (a numeric phone
\* number is not iterable) and was still answered
C1_Witness ==
    /\ Handled
    /\ Envelope(req)
    /\ IntentName(req) = Text("RecommendIntent")
    /\ PhoneOf(req) = IntPhone
    /\ result.status = 200
    /\ OneMessage
    /\ ResponseText = ErrorText(NotIterableError)

(***************************************************************************)
(* C2.  In the feedback branch the store's add is called exactly once,     *)
(* with the record text equal to parameters.feedback_text, when            *)
(* feedback_text is a non-empty string and the store is available; when    *)
(* feedback_text is absent or empty, or the store is unavailable, the      *)
(* store is never called and no record is created.                         *)
(***************************************************************************)
C2_StoreCalledOnlyWithTextAndStore ==
    (Handled /\ Envelope(req) /\ IntentName(req) = Text("FeedbackIntent")) =>
        LET ft == FeedbackTextOf(req) IN
        /\ (ft.kind = "str" /\ ft.s # "" /\ db = "client") =>
              /\ Len(result.store_calls) = 1
              /\ result.store_calls[1].text = ft
        /\ (ft.kind = "absent" \/ ft = Text("") \/ db = "None") =>
              /\ result.store_calls = <<>>
              /\ \A i \in 1..Len(feedback) : feedback[i].timestamp # served - 1

C2_Witness ==
    /\ Handled
    /\ Envelope(req)
    /\ IntentName(req) = Text("FeedbackIntent")
    /\ FeedbackTextOf(req) = Text("great")
    /\ db = "client"
    /\ store_outcome = "ok"
    /\ Len(result.store_calls) = 1
    /\ result.store_calls[1].text = Text("great")
    /\ feedback # <<>>
    /\ feedback[Len(feedback)].text = Text("great")

\* the last request reached the branch selection and its branch ran to the
\* end: no lookup raised
RanToEnd(r) == Envelope(r) /\ HasBag(r) /\ PhoneOf(r).kind # "int"

C4_AlwaysPlusPrefixed ==
    (fpc = "return" /\ number # <<>>) =>
        /\ formatted # <<>>
        /\ Head(formatted) = "+"
        /\ ~UKForm(number) => formatted = <<"+">> \o DigitsOf(number)

(***************************************************************************)
(* C5 as stated.  A body that is not JSON does not crash the handler and   *)
(* is answered with the fallback text.                                     *)
(***************************************************************************)
C5_NonJsonGetsFallback ==
    (Handled /\ req.body = "None") =>
        /\ result.status = 200
        /\ OneMessage
        /\ ResponseText = FallbackText

(***************************************************************************)
(* C5 amended.  A body that is not JSON (or is JSON but not an object)     *)
(* does not crash the handler; it is answered, with HTTP 200 and no        *)
(* collaborator call, by the unexpected-error text that embeds the         *)
(* exception, "An unexpected error occurred: 'NoneType' object has no      *)
(* attribute 'get'. Please try again later." for a non-JSON body, and not  *)
(* by the fallback text.                                                   *)
(***************************************************************************)
C5_NonJsonGetsErrorText ==
    (Handled /\ req.body # "object") =>
        /\ result.status = 200
        /\ OneMessage
        /\ ResponseText =
             "An unexpected error occurred: "
             \o (IF req.body = "None"
                 THEN "'NoneType' object has no attribute 'get'"
                 ELSE "'list' object has no attribute 'get'")
             \o ". Please try again later."
        /\ ResponseText # FallbackText
        /\ CollaboratorCalls = 0

C5_Witness ==
    /\ Handled
    /\ req.body = "None"
    /\ db = "client"
    /\ result.status = 200
    /\ ResponseText = ErrorText(NoneTypeError)

(***************************************************************************)
(* C6 as stated.  In the recommend branch with a non-empty phone number,   *)
(* messages.create is called exactly once, to the normalised number        *)
(* qualified with the "whatsapp:" channel prefix and with a body that      *)
(* contains the share link, and the response text is the result string of  *)
(* the gateway helper, whether the send succeeded or failed.               *)
(***************************************************************************)
C6_SendsToWhatsappAddress ==
    (/\ Handled
     /\ Envelope(req)
     /\ IntentName(req) = Text("RecommendIntent")
     /\ PhoneOf(req).kind = "str"
     /\ PhoneOf(req).s # <<>>) =>
        /\ Len(result.gateway_calls) = 1
        /\ LET call == result.gateway_calls[1] IN
            /\ startswith(call.to, WhatsappPrefix)
            /\ call.to = WhatsappPrefix \o format_phone_number(PhoneOf(req).s)
            /\ \E i \in 1..Len(call.body) : call.body[i] = share_link
        /\ ResponseText = IF send_outcome = "ok" THEN SentText ELSE FailedText

(***************************************************************************)
(* C7.  The normaliser strips every non-digit character; when the cleaned  *)
(* string starts with "07" and has exactly 11 digits the result is "+44"   *)
(* followed by the cleaned string without its leading "0", whatever        *)
(* separators the raw input holds.                                         *)
(***************************************************************************)
C7_UKLocalToPlus44 ==
    (fpc = "return" /\ UKForm(number)) =>
        /\ formatted = <<"+", "4", "4">> \o Tail(DigitsOf(number))
        /\ Len(formatted) = UKLen + 2

\* a UK local number written with a separator
C7_Witness ==
    /\ fpc = "return"
    /\ UKForm(number)
    /\ \E i \in 1..Len(number) : number[i] = "-"
    /\ formatted = <<"+", "4", "4", "7">> \o Fill("1", 9)

(***************************************************************************)
(* C8.  When neither branch matches (the intent name is absent or          *)
(* unrecognized and there is no matching tag) the response text is exactly *)
(* the fallback text and neither the store nor the gateway is called.      *)
(***************************************************************************)
C8_FallbackWhenNoBranch ==
    (/\ Handled
     /\ Envelope(req)
     /\ IntentName(req) \notin {Text("FeedbackIntent"), Text("RecommendIntent")}
     /\ Tag(req) \notin {Text("feedback-recommend"), Text("recommend-share")}) =>
        /\ OneMessage
        /\ ResponseText =
             "I'm sorry, I didn't understand that. Could you please rephrase?"
        /\ result.store_calls = <<>>
        /\ result.gateway_calls = <<>>

\* an unrecognized intent with a phone number in the bag: nothing is sent
C8_Witness ==
    /\ Handled
    /\ Envelope(req)
    /\ IntentName(req) = Text("OtherIntent")
    /\ Tag(req) = AbsentText
    /\ PhoneOf(req) = Phone(UKLocal)
    /\ ResponseText = FallbackText
    /\ CollaboratorCalls = 0

(***************************************************************************)
(* C9.  A request makes at most one collaborator call: the feedback branch *)
(* never calls the gateway, the recommend branch never calls the store,    *)
(* and the recommend branch with recipient_phone_number absent or empty    *)
(* calls neither and returns the fixed missing-phone-number text.          *)
(***************************************************************************)
C9_AtMostOneCollaboratorCall ==
    Handled =>
        /\ CollaboratorCalls <= 1
        /\ (Envelope(req) /\ IntentName(req) = Text("FeedbackIntent")) =>
              result.gateway_calls = <<>>
        /\ (Envelope(req) /\ IntentName(req) = Text("RecommendIntent")) =>
              /\ result.store_calls = <<>>
              /\ feedback = <<>> \/ feedback[Len(feedback)].timestamp # served - 1
        /\ (/\ Envelope(req)
            /\ IntentName(req) = Text("RecommendIntent")
            /\ HasBag(req)
            /\ PhoneOf(req) \in {AbsentPhone, Phone(<<>>)}) =>
              /\ CollaboratorCalls = 0
              /\ ResponseText =
                   "Sorry, I did not receive a valid phone number. Please try again."

\* the recommend branch with both parameters in the bag and the store up:
\* one message sent, nothing stored
C9_Witness ==
    /\ Handled
    /\ Envelope(req)
    /\ IntentName(req) = Text("RecommendIntent")
    /\ FeedbackTextOf(req) = Text("great")
    /\ PhoneOf(req) = Phone(UKLocal)
    /\ db = "client"
    /\ Len(result.gateway_calls) = 1
    /\ result.store_calls = <<>>
    /\ CollaboratorCalls = 1

(***************************************************************************)
(* C10.  The handler keeps no state of its own: two requests that are      *)
(* equal, with the same store handle, make the same collaborator call and, *)
(* when that call has the same outcome, get the same response, whatever    *)
(* was handled before; the stored feedback only grows, by at most one      *)
(* record per request and without changing a stored record; and no request *)
(* changes the store handle.                                               *)
(***************************************************************************)
C10_SameInputsSameResponse ==
    (prev # <<>> /\ prev[1].req = req /\ prev[1].db = db) =>
        /\ (prev[1].store_outcome = "uncalled") <=> (store_outcome = "uncalled")
        /\ (prev[1].send_outcome = "uncalled") <=> (send_outcome = "uncalled")
        /\ (prev[1].store_outcome = store_outcome
            /\ prev[1].send_outcome = send_outcome) =>
              prev[1].response = result.response

C10_StoreOnlyGrows ==
    /\ Len(feedback') \in {Len(feedback), Len(feedback) + 1}
    /\ SubSeq(feedback', 1, Len(feedback)) = feedback
    /\ pc = "serving" => db' = db

\* C10: equal requests are answered alike in every state, and every step
\* only appends to the stored feedback and leaves the handle alone
C10_StatelessHandler ==
    [](C10_SameInputsSameResponse) /\ [][C10_StoreOnlyGrows]_vars

\* the same feedback request twice, stored both times and answered alike
C10_Witness ==
    /\ prev # <<>>
    /\ prev[1].req = req
    /\ IntentName(req) = Text("FeedbackIntent")
    /\ prev[1].store_outcome = "ok"
    /\ store_outcome = "ok"
    /\ Len(feedback) = 2
    /\ prev[1].response = result.response
    /\ ResponseText = ThanksText

====
